---- MODULE Spec2Model ----
(***************************************************************************)
(* Daily cleaning summary (src/main.py): the paginated fetch loops, the    *)
(* check-in cleaning status resolution, today's report sections and        *)
(* yesterday's summary, each as a state machine over the record source's   *)
(* responses.                                                               *)
(*                                                                         *)
(* The script is a sequential batch job.  Its four parts share no state    *)
(* but the request headers, so each part has its own specification over    *)
(* its own group of variables:                                             *)
(*   SpecPages      fetch_property_map / fetch_reservations / fetch_tasks  *)
(*   SpecStatus     get_checkin_cleaning_status                            *)
(*   SpecToday      __main__, lines 221-302                                *)
(*   SpecYesterday  fetch_yesterday_cleanings                              *)
(* A Python string is modelled as a TLA+ string when only equality and     *)
(* emptiness are used on it, and as a sequence of character codes when it  *)
(* is compared or sliced (finished_at).  A missing key and an empty value  *)
(* are both "" / << >>: the code reads them with .get() and `or`.          *)
(***************************************************************************)
EXTENDS Integers, Sequences, FiniteSets, TLC

VARIABLES
    \* ---- SpecPages: one run of a page-size-driven fetch loop
    loop,             \* which function runs: "property" | "reservation" | "task" | "idle"
    srcTotal,         \* number of records the source holds for the query
    srcStride,        \* record i passes the client-side filter iff i % srcStride # 0
    page,             \* local `page`
    requests,         \* page requests issued so far
    gathered,         \* number of entries in property_map / reservations / all_tasks
    failed,           \* a non-200 response was received
    ppc,              \* "fetching" | "returned" | "idle"
    \* ---- SpecStatus: one call of get_checkin_cleaning_status
    srcWindow,        \* tasks the source holds for the window query, in its order
    srcDetail,        \* task id -> [ok, rec]: the source's answer to GET task/{id}
    url_page,         \* page number in `url`
    all_tasks,        \* local `all_tasks`
    dt_i,             \* position of the `for t in all_tasks` loop
    detailed_tasks,   \* local `detailed_tasks`
    detail_requests,  \* ids for which GET task/{id} was issued, in order
    verdict,          \* the returned value
    spc,              \* "list" | "details" | "resolve" | "returned" | "idle"
    \* ---- SpecToday: __main__
    srcCheckouts,     \* today's check-out reservations held by the source
    property_map,     \* dict id -> name, as a sequence of [id, name] in insertion order
    checkins,         \* `checkins`
    ci_i,             \* position of the `for res in checkins` loop
    printed,          \* `printed`
    resolved,         \* calls made to get_checkin_cleaning_status, in order
    out_checkins,     \* lines appended after "Check-ins today:"
    checkouts,        \* `checkouts`
    cm_k,             \* position of the `for prop_id, prop_info in property_map.items()` loop
    fetched_today,    \* prop_id -> the records the source returned for today's tasks
    cleaning_map,     \* dict name -> lines, as a sequence of [name, lines]
    checkout_props,   \* `checkout_props`
    out_checkouts,    \* lines appended after "Check-outs today:"
    out_pending,      \* lines appended after "Pending cleanings:"
    tpc,              \* position in __main__
    \* ---- SpecYesterday: fetch_yesterday_cleanings
    y_property_map,   \* local `property_map`
    y_k,              \* position of the `for prop_id, prop_info in property_map.items()` loop
    y_fetched,        \* prop_id -> the records the source returned for yesterday's tasks
    y_output,         \* lines appended to `output` after the header
    ypc               \* "start" | "loop" | "returned" | "idle"

pageVars == <<loop, srcTotal, srcStride, page, requests, gathered, failed, ppc>>

statusVars == <<srcWindow, srcDetail, url_page, all_tasks, dt_i, detailed_tasks,
                detail_requests, verdict, spc>>

todayVars == <<srcCheckouts, property_map, checkins, ci_i, printed, resolved,
               out_checkins, checkouts, cm_k, fetched_today, cleaning_map,
               checkout_props, out_checkouts, out_pending, tpc>>

yesterdayVars == <<y_property_map, y_k, y_fetched, y_output, ypc>>

vars == <<pageVars, statusVars, todayVars, yesterdayVars>>

(***************************************************************************)
(* Bounds of the model.                                                    *)
(***************************************************************************)
MaxRecords == 250

MaxListed == 3

WindowPage == 2

MaxCheckins == 3

MaxCheckouts == 2

MaxTTasks == 1

MaxYTasks == 2

(***************************************************************************)
(* Program constants.                                                      *)
(***************************************************************************)
Limit == 100

DateLen == 10

SentinelDays == 90

Today == 100

(***************************************************************************)
(* Helpers shared by the parts.                                            *)
(***************************************************************************)
Min(a, b) == IF a <= b THEN a ELSE b

\* ceil(a / b)
CeilDiv(a, b) == (a + b - 1) \div b

\* x or d
OrElse(x, d) == IF x = "" THEN d ELSE x

\* The first n elements of s: s[:n]
Take(s, n) == SubSeq(s, 1, Min(n, Len(s)))

RECURSIVE Concat(_)
\* The concatenation of a sequence of sequences
Concat(ss) == IF ss = << >> THEN << >> ELSE Head(ss) \o Concat(Tail(ss))

\* All sequences over S of length at most n
SeqsUpTo(S, n) == UNION {[1..k -> S] : k \in 0..n}

Range(s) == {s[i] : i \in DOMAIN s}

(***************************************************************************)
(* The idle values of each group of variables, for the specifications of   *)
(* the other parts.                                                        *)
(***************************************************************************)
NoVerdict == [kind |-> "", task_name |-> "", cleaner_name |-> "", finished_date |-> << >>]

PagesIdle ==
    /\ loop = "idle" /\ srcTotal = 0 /\ srcStride = 1 /\ page = 1
    /\ requests = 0 /\ gathered = 0 /\ failed = FALSE /\ ppc = "idle"

StatusIdle ==
    /\ srcWindow = << >> /\ srcDetail = << >> /\ url_page = 1 /\ all_tasks = << >>
    /\ dt_i = 1 /\ detailed_tasks = << >> /\ detail_requests = << >>
    /\ verdict = NoVerdict /\ spc = "idle"

TodayIdle ==
    /\ srcCheckouts = << >> /\ property_map = << >> /\ checkins = << >> /\ ci_i = 1
    /\ printed = {} /\ resolved = << >> /\ out_checkins = << >> /\ checkouts = << >>
    /\ cm_k = 1 /\ fetched_today = << >> /\ cleaning_map = << >>
    /\ checkout_props = {} /\ out_checkouts = << >> /\ out_pending = << >>
    /\ tpc = "idle"

YesterdayIdle ==
    /\ y_property_map = << >> /\ y_k = 1 /\ y_fetched = << >> /\ y_output = << >>
    /\ ypc = "idle"

(***************************************************************************)
(* SpecPages: the three page-size-driven fetch loops.                      *)
(* The source holds records 1..srcTotal for the query and serves them      *)
(* Limit to a page; a request may also be answered with a non-200 status.  *)
(***************************************************************************)
LoopKinds == {"property", "reservation", "task"}

\* The indices of the records on page p of a source holding n records
SrcPage(n, p) == {i \in 1..n : (p - 1) * Limit < i /\ i <= p * Limit}

\* Whether record i is kept by the loop's client-side filter:
\* status == "active" (property), none (reservation),
\* type_department == "housekeeping" (task)
Keeps(kind, stride, i) == IF kind = "reservation" THEN TRUE ELSE i % stride # 0

\* `if len(results) < limit: break`, on a mutated comparison
PageIsLastOnEmpty(len) == len = 0

\* `if len(results) < limit: break`
PageIsLast(len) == len < Limit

\* One iteration of `while True:` in the loop of the given function
FetchPage(kind) ==
    /\ ppc = "fetching"
    /\ loop = kind
    /\ requests' = requests + 1
    /\ \E ok \in BOOLEAN :
         IF ~ok
         THEN /\ failed' = TRUE
              /\ ppc' = "returned"
              /\ UNCHANGED <<page, gathered>>
         ELSE LET results == SrcPage(srcTotal, page)
              IN  /\ gathered' = gathered
                        + Cardinality({i \in results : Keeps(kind, srcStride, i)})
                  /\ IF PageIsLast(Cardinality(results))
                     THEN /\ ppc' = "returned"
                          /\ page' = page
                     ELSE /\ ppc' = "fetching"
                          /\ page' = page + 1
                  /\ UNCHANGED failed
    /\ UNCHANGED <<loop, srcTotal, srcStride>>
    /\ UNCHANGED <<statusVars, todayVars, yesterdayVars>>

FetchPropertyPage == FetchPage("property")

FetchReservationPage == FetchPage("reservation")

FetchTaskPage == FetchPage("task")

InitPages ==
    /\ loop \in LoopKinds
    /\ srcTotal \in 0..MaxRecords
    /\ srcStride \in {1, 2, 3}
    /\ page = 1
    /\ requests = 0
    /\ gathered = 0
    /\ failed = FALSE
    /\ ppc = "fetching"
    /\ StatusIdle /\ TodayIdle /\ YesterdayIdle

NextPages == FetchPropertyPage \/ FetchReservationPage \/ FetchTaskPage

SpecPages == InitPages /\ [][NextPages]_vars

\* The records among 1..n that the loop keeps
KeptUpTo(n) == Cardinality({i \in 1..n : Keeps(loop, srcStride, i)})

(***************************************************************************)
(* C1 (as stated): for a well-behaved source holding N records, each loop  *)
(* issues at most ceil(N / limit) page requests.                           *)
(***************************************************************************)
C1_AtMostCeilRequests == ~failed => requests <= CeilDiv(srcTotal, Limit)

(***************************************************************************)
(* C1 (amended): each loop issues at most floor(N / limit) + 1 page        *)
(* requests (exactly that many when no request fails, returning every kept *)
(* record), and on the first non-200 response it returns what the pages    *)
(* before it gave.                                                         *)
(***************************************************************************)
C1_AtMostFloorPlusOneRequests ==
    /\ ppc \in {"fetching", "returned"} => requests <= srcTotal \div Limit + 1
    /\ (ppc = "returned" /\ ~failed) =>
          /\ requests = srcTotal \div Limit + 1
          /\ gathered = KeptUpTo(srcTotal)
    /\ (ppc = "returned" /\ failed) =>
          gathered = KeptUpTo(Min(srcTotal, (requests - 1) * Limit))

\* A source holding exactly two full pages is asked for a third, empty one
C1_Witness ==
    /\ ppc = "returned" /\ ~failed
    /\ srcTotal = 2 * Limit /\ requests = 3 /\ gathered > 0

(***************************************************************************)
(* SpecStatus: get_checkin_cleaning_status(prop_id, headers,               *)
(* last_checkout_date).  The source holds, for the window                  *)
(* [last_checkout_date, today], the tasks srcWindow (by id, 0 for a record *)
(* without id), and answers GET task/{id} from srcDetail.                  *)
(***************************************************************************)
TaskIds == {1, 2}

Departments == {"housekeeping", "maintenance"}

\* A finished_at timestamp on day d at hour h, as character codes
StampOf(d, h) == <<2, 0, 2, 4, 0, 0, 5, 0, 0, d, h>>

\* The detail records the source may hold for a task
DetailRecs ==
    { [finished_at |-> StampOf(1, 1), type |-> "Clean", name |-> "",
       assignments |-> <<[name |-> "Ann"]>>],
      [finished_at |-> StampOf(2, 1), type |-> "", name |-> "Turnover",
       assignments |-> << >>],
      [finished_at |-> << >>, type |-> "Clean", name |-> "Turnover",
       assignments |-> <<[name |-> "Bob"], [name |-> "Ann"]>>],
      [finished_at |-> <<3>>, type |-> "", name |-> "",
       assignments |-> <<[name |-> ""]>>],
      [finished_at |-> StampOf(1, 2), type |-> "Deep", name |-> "",
       assignments |-> <<[name |-> "Bob"]>>] }

NoRec == [finished_at |-> << >>, type |-> "", name |-> "", assignments |-> << >>]

\* What the source may hold for one task id
SourceTasks ==
    [type_department : Departments, ok : {TRUE}, rec : DetailRecs]
        \cup [type_department : Departments, ok : {FALSE}, rec : {NoRec}]

\* The record the task listing returns for an id of the window
Listed(id) ==
    [id |-> id,
     type_department |-> IF id = 0 THEN "housekeeping" ELSE srcDetail[id].type_department]

\* Page p of the listing: results, page, total_pages
WindowResponse(p) ==
    [results |-> [k \in 1..Min(WindowPage, Len(srcWindow) - Min(Len(srcWindow), (p - 1) * WindowPage))
                    |-> Listed(srcWindow[(p - 1) * WindowPage + k])],
     page |-> p,
     total_pages |-> CeilDiv(Len(srcWindow), WindowPage)]

RECURSIVE LexLess(_, _)
\* a < b on Python strings
LexLess(a, b) ==
    IF a = << >> THEN b # << >>
    ELSE IF b = << >> THEN FALSE
    ELSE IF Head(a) = Head(b) THEN LexLess(Tail(a), Tail(b))
    ELSE Head(a) < Head(b)

\* [t for t in detailed_tasks if t.get("finished_at")], without the condition
CompletedUnfiltered(d) == d

\* [t for t in detailed_tasks if t.get("finished_at")]
Completed(d) == SelectSeq(d, LAMBDA t : t.finished_at # << >>)

\* x placed into t (sorted, greatest first) behind the records not smaller than it
InsertDescending(t, x) ==
    LET k == Cardinality({i \in DOMAIN t : ~LexLess(t[i].finished_at, x.finished_at)})
    IN  SubSeq(t, 1, k) \o <<x>> \o SubSeq(t, k + 1, Len(t))

\* x placed into t (sorted, smallest first) behind the records not greater than it
InsertAscending(t, x) ==
    LET k == Cardinality({i \in DOMAIN t : ~LexLess(x.finished_at, t[i].finished_at)})
    IN  SubSeq(t, 1, k) \o <<x>> \o SubSeq(t, k + 1, Len(t))

RECURSIVE SortAscending(_)
\* completed_tasks.sort(key=...), with reverse=True left out
SortAscending(s) ==
    IF s = << >> THEN << >>
    ELSE InsertAscending(SortAscending(SubSeq(s, 1, Len(s) - 1)), s[Len(s)])

RECURSIVE SortReverse(_)
\* completed_tasks.sort(key=lambda t: t.get("finished_at"), reverse=True): stable
SortReverse(s) ==
    IF s = << >> THEN << >>
    ELSE InsertDescending(SortReverse(SubSeq(s, 1, Len(s) - 1)), s[Len(s)])

\* task.get("type") or task.get("name") or "Unnamed Task"
TaskName(t) == OrElse(t.type, OrElse(t.name, "Unnamed Task"))

\* The cleaner named in the verdict
CleanerName(t) ==
    IF t.assignments # << >> THEN OrElse(t.assignments[1].name, "Unknown cleaner")
    ELSE "Unknown cleaner"

Dirty == [kind |-> "Dirty", task_name |-> "", cleaner_name |-> "", finished_date |-> << >>]

\* f"Ready - {task_name} - Cleaned by {cleaner_name} - {finished_date}"
Ready(t) ==
    [kind |-> "Ready", task_name |-> TaskName(t), cleaner_name |-> CleanerName(t),
     finished_date |-> Take(t.finished_at, DateLen)]

\* Steps 2 (second half) and 3: the verdict from the detail records obtained
Verdict(d) ==
    IF d = << >> THEN Dirty
    ELSE LET completed_tasks == Completed(d)
         IN  IF completed_tasks = << >> THEN Dirty
             ELSE Ready(Head(SortReverse(completed_tasks)))

\* One iteration of `while url:`; leaving the loop, `if not all_tasks: return "Dirty"`
ListStep ==
    /\ spc = "list"
    /\ \E ok \in BOOLEAN :
         LET data == WindowResponse(url_page)
             tasks == IF ok THEN all_tasks \o data.results ELSE all_tasks
             more == ok /\ data.page < data.total_pages
         IN  /\ all_tasks' = tasks
             /\ IF more
                THEN /\ url_page' = data.page + 1
                     /\ spc' = "list"
                     /\ verdict' = verdict
                ELSE /\ url_page' = url_page
                     /\ spc' = IF tasks = << >> THEN "returned" ELSE "details"
                     /\ verdict' = IF tasks = << >> THEN Dirty ELSE verdict
    /\ UNCHANGED <<srcWindow, srcDetail, dt_i, detailed_tasks, detail_requests>>
    /\ UNCHANGED <<pageVars, todayVars, yesterdayVars>>

\* `if resp.status_code != 200: continue`, as a break
OnDetailFailureBreak(i) == Len(all_tasks) + 1

\* `if resp.status_code != 200: continue`: the position the loop goes on from
OnDetailFailure(i) == i + 1

\* One iteration of `for t in all_tasks:`
DetailStep ==
    /\ spc = "details"
    /\ LET t == all_tasks[dt_i]
           asked == t.id # 0
           got == asked /\ srcDetail[t.id].ok
           next == IF asked /\ ~got THEN OnDetailFailure(dt_i) ELSE dt_i + 1
       IN  /\ detail_requests' = IF asked THEN Append(detail_requests, t.id)
                                 ELSE detail_requests
           /\ detailed_tasks' = IF got THEN Append(detailed_tasks, srcDetail[t.id].rec)
                                ELSE detailed_tasks
           /\ dt_i' = next
           /\ spc' = IF next > Len(all_tasks) THEN "resolve" ELSE "details"
    /\ UNCHANGED <<srcWindow, srcDetail, url_page, all_tasks, verdict>>
    /\ UNCHANGED <<pageVars, todayVars, yesterdayVars>>

\* Lines 168-185
Resolve ==
    /\ spc = "resolve"
    /\ verdict' = Verdict(detailed_tasks)
    /\ spc' = "returned"
    /\ UNCHANGED <<srcWindow, srcDetail, url_page, all_tasks, dt_i, detailed_tasks,
                   detail_requests>>
    /\ UNCHANGED <<pageVars, todayVars, yesterdayVars>>

InitStatus ==
    /\ srcWindow \in SeqsUpTo({0} \cup TaskIds, MaxListed)
    /\ srcDetail \in [TaskIds -> SourceTasks]
    /\ url_page = 1
    /\ all_tasks = << >>
    /\ dt_i = 1
    /\ detailed_tasks = << >>
    /\ detail_requests = << >>
    /\ verdict = NoVerdict
    /\ spc = "list"
    /\ PagesIdle /\ TodayIdle /\ YesterdayIdle

NextStatus == ListStep \/ DetailStep \/ Resolve

SpecStatus == InitStatus /\ [][NextStatus]_vars

\* The listed tasks whose detail the source gives, in the order listed
Obtainable == SelectSeq(all_tasks, LAMBDA t : t.id # 0 /\ srcDetail[t.id].ok)

\* The ids of the listed tasks that have one, in the order listed
ListedIds == [k \in DOMAIN SelectSeq(all_tasks, LAMBDA t : t.id # 0)
                |-> SelectSeq(all_tasks, LAMBDA t : t.id # 0)[k].id]

(***************************************************************************)
(* C2 (as stated): get_checkin_cleaning_status never fetches the detail of *)
(* a task whose type_department is not "housekeeping", and never names     *)
(* such a task in a "Ready - ..." verdict, whatever tasks the source       *)
(* returns for the window.                                                 *)
(***************************************************************************)
C2_OnlyHousekeepingConsidered ==
    /\ \A k \in DOMAIN detail_requests :
          srcDetail[detail_requests[k]].type_department = "housekeeping"
    /\ verdict.kind = "Ready" =>
          \E k \in DOMAIN Obtainable :
             /\ Obtainable[k].type_department = "housekeeping"
             /\ verdict = Ready(srcDetail[Obtainable[k].id].rec)

(***************************************************************************)
(* C4: get_checkin_cleaning_status returns exactly "Dirty" when the window *)
(* gave no tasks, when every detail fetch failed, or when no obtained      *)
(* detail record has a non-empty finished_at; in every other case it       *)
(* returns a "Ready - ..." string.                                         *)
(***************************************************************************)
C4_DirtyExactlyWithoutCompletedTask ==
    spc = "returned" =>
       LET finished == \E k \in DOMAIN Obtainable :
                          srcDetail[Obtainable[k].id].rec.finished_at # << >>
       IN  /\ all_tasks = << >> => verdict = Dirty
           /\ Obtainable = << >> => verdict = Dirty
           /\ ~finished => verdict = Dirty
           /\ finished => verdict.kind = "Ready" /\ verdict # Dirty

\* Detail records were obtained, none of them finished
C4_Witness ==
    /\ spc = "returned" /\ verdict = Dirty
    /\ Len(detailed_tasks) >= 2 /\ Len(detail_requests) > Len(detailed_tasks)

(***************************************************************************)
(* C5: a "Ready - ..." verdict takes its task label, cleaner name and      *)
(* finished date from an obtained detail record whose finished_at is       *)
(* lexicographically greatest among the obtained records with a non-empty  *)
(* finished_at, in whatever order the tasks were listed.                   *)
(***************************************************************************)
C5_ReadyNamesGreatestFinishedAt ==
    (spc = "returned" /\ verdict.kind = "Ready") =>
       \E i \in DOMAIN detailed_tasks :
          /\ detailed_tasks[i].finished_at # << >>
          /\ \A j \in DOMAIN detailed_tasks :
                ~LexLess(detailed_tasks[i].finished_at, detailed_tasks[j].finished_at)
          /\ verdict.task_name = TaskName(detailed_tasks[i])
          /\ verdict.cleaner_name = CleanerName(detailed_tasks[i])
          /\ verdict.finished_date = Take(detailed_tasks[i].finished_at, DateLen)

\* The greatest finished_at is not the first listed, and is shorter than the others
C5_Witness ==
    /\ spc = "returned" /\ verdict.kind = "Ready"
    /\ Len(detailed_tasks) = 2
    /\ detailed_tasks[1].finished_at = StampOf(2, 1)
    /\ detailed_tasks[2].finished_at = <<3>>
    /\ verdict.finished_date = <<3>>

(***************************************************************************)
(* C8: a failed detail fetch drops only its own task: the verdict is the   *)
(* one computed over exactly the listed tasks whose detail fetch           *)
(* succeeded, and a detail fetch is issued for every listed task, those    *)
(* after a failure included.                                               *)
(***************************************************************************)
C8_FailedDetailDropsOnlyThatTask ==
    spc = "returned" =>
       /\ verdict = Verdict([k \in DOMAIN Obtainable |-> srcDetail[Obtainable[k].id].rec])
       /\ all_tasks # << >> => detail_requests = ListedIds

\* The first detail fetch fails and a later one gives the verdict
C8_Witness ==
    /\ spc = "returned" /\ verdict.kind = "Ready"
    /\ Len(all_tasks) >= 2
    /\ all_tasks[1].id # 0 /\ ~srcDetail[all_tasks[1].id].ok
    /\ Len(detail_requests) = Len(all_tasks)

(***************************************************************************)
(* Dictionaries, as sequences of [key, val] in insertion order.            *)
(***************************************************************************)
DictHas(d, k) == \E i \in DOMAIN d : d[i].key = k

DictGet(d, k) == d[CHOOSE i \in DOMAIN d : d[i].key = k].val

\* d[k] = v
DictPut(d, k, v) ==
    IF DictHas(d, k)
    THEN [i \in DOMAIN d |-> IF d[i].key = k THEN [key |-> k, val |-> v] ELSE d[i]]
    ELSE Append(d, [key |-> k, val |-> v])

(***************************************************************************)
(* The property catalog and the task lists of one property and one day,    *)
(* as the source may return them (in one short page, or not at all).       *)
(***************************************************************************)
PropIds == {1, 2}

\* The property records of the source, by id
Catalogs == [PropIds -> [status : {"active", "inactive"}, name : {"Villa", ""}]]

RECURSIVE PropertyMapFrom(_, _)
\* The loop body of fetch_property_map over the records with ids from..2
PropertyMapFrom(cat, from) ==
    IF from \notin PropIds THEN << >>
    ELSE LET rest == PropertyMapFrom(cat, from + 1)
         IN  IF cat[from].status = "active"
             THEN <<[key |-> from, val |-> OrElse(cat[from].name, "Unnamed Property")]>> \o rest
             ELSE rest

\* fetch_property_map(headers) on a source that answers ok with cat, or fails
FetchPropertyMap(ok, cat) == IF ok THEN PropertyMapFrom(cat, 1) ELSE << >>

\* [t for t in results if t.get("type_department") == "housekeeping"]
Housekeeping(results) == SelectSeq(results, LAMBDA t : t.type_department = "housekeeping")

\* fetch_tasks(home_id, date, headers) on a source that answers ok with results, or fails
FetchTasks(ok, results) == IF ok THEN Housekeeping(results) ELSE << >>

\* The task records the source may hold for today
TodayTaskRecs ==
    { [type_department |-> "housekeeping", type |-> "Clean", name |-> "Turnover",
       finished_at |-> << >>,
       assignments |-> <<[name |-> "Ann", type_task_user_status |-> "completed"],
                         [name |-> "", type_task_user_status |-> ""]>>],
      [type_department |-> "housekeeping", type |-> "", name |-> "",
       finished_at |-> << >>, assignments |-> << >>],
      [type_department |-> "maintenance", type |-> "Fix", name |-> "",
       finished_at |-> << >>,
       assignments |-> <<[name |-> "Ann", type_task_user_status |-> "completed"]>>] }

(***************************************************************************)
(* SpecToday: __main__ from the property catalog to the pending section.   *)
(* An output line is its parts, joined by " - " in the message, and        *)
(* whether "- " is put before it.                                          *)
(***************************************************************************)
Line(dash, parts) == [dash |-> dash, parts |-> parts]

\* What get_checkin_cleaning_status may return (SpecStatus)
StatusStrings == {"Dirty", "Ready"}

\* The lines of one task in cleaning_map
TodayTaskLines(prop_name, task) ==
    IF task.assignments = << >>
    THEN <<Line(FALSE, <<prop_name, TaskName(task), "Not assigned">>)>>
    ELSE [a \in DOMAIN task.assignments |->
            Line(FALSE, <<prop_name, TaskName(task),
                          OrElse(task.assignments[a].name, "Not assigned"),
                          OrElse(task.assignments[a].type_task_user_status, "Unknown")>>)]

\* cleaning_map[prop_name] after the `for task in tasks` loop
TodayLines(prop_name, tasks) ==
    Concat([k \in DOMAIN tasks |-> TodayTaskLines(prop_name, tasks[k])])

\* max(c.get("checkout_date") for c in all_checkouts)
MaxDate(cs) == CHOOSE d \in {cs[i].checkout_date : i \in DOMAIN cs} :
                  \A i \in DOMAIN cs : cs[i].checkout_date <= d

\* Line 223
StartToday ==
    /\ tpc = "start"
    /\ \E ok \in BOOLEAN, cat \in Catalogs : property_map' = FetchPropertyMap(ok, cat)
    /\ tpc' = "checkins"
    /\ UNCHANGED <<srcCheckouts, checkins, ci_i, printed, resolved, out_checkins,
                   checkouts, cm_k, fetched_today, cleaning_map, checkout_props,
                   out_checkouts, out_pending>>
    /\ UNCHANGED <<pageVars, statusVars, yesterdayVars>>

\* Lines 226-229 and 250-251
FetchCheckins ==
    /\ tpc = "checkins"
    /\ \E res \in SeqsUpTo([property_id : PropIds], MaxCheckins) :
          /\ checkins' = res
          /\ out_checkins' = IF res = << >>
                             THEN <<Line(FALSE, <<"No check-ins today.">>)>>
                             ELSE << >>
          /\ tpc' = IF res = << >> THEN "checkouts" ELSE "checkin_loop"
    /\ ci_i' = 1
    /\ printed' = {}
    /\ UNCHANGED <<srcCheckouts, property_map, resolved, checkouts, cm_k,
                   fetched_today, cleaning_map, checkout_props, out_checkouts,
                   out_pending>>
    /\ UNCHANGED <<pageVars, statusVars, yesterdayVars>>

\* `if prop_name in printed: continue`
Seen(prop_name) == prop_name \in printed

\* One iteration of `for res in checkins:` (lines 230-249)
CheckinStep ==
    /\ tpc = "checkin_loop"
    /\ LET prop_id == checkins[ci_i].property_id
           known == DictHas(property_map, prop_id)
           prop_name == DictGet(property_map, prop_id)
           all_checkouts == SelectSeq(srcCheckouts, LAMBDA c : c.property_id = prop_id)
           last_checkout_date == IF all_checkouts # << >> THEN MaxDate(all_checkouts)
                                 ELSE Today - SentinelDays
       IN  IF known /\ ~Seen(prop_name)
           THEN \E prop_status \in StatusStrings :
                   /\ resolved' = Append(resolved,
                         [prop_id |-> prop_id, last_checkout_date |-> last_checkout_date,
                          at |-> ci_i])
                   /\ out_checkins' = Append(out_checkins,
                                             Line(TRUE, <<prop_name, prop_status>>))
                   /\ printed' = printed \cup {prop_name}
           ELSE UNCHANGED <<resolved, out_checkins, printed>>
    /\ ci_i' = ci_i + 1
    /\ tpc' = IF ci_i = Len(checkins) THEN "checkouts" ELSE "checkin_loop"
    /\ UNCHANGED <<srcCheckouts, property_map, checkins, checkouts, cm_k,
                   fetched_today, cleaning_map, checkout_props, out_checkouts,
                   out_pending>>
    /\ UNCHANGED <<pageVars, statusVars, yesterdayVars>>

\* Lines 255-256
FetchCheckouts ==
    /\ tpc = "checkouts"
    /\ checkouts' = srcCheckouts
    /\ cleaning_map' = << >>
    /\ cm_k' = 1
    /\ tpc' = IF property_map = << >> THEN "checkout_section" ELSE "cleaning_loop"
    /\ UNCHANGED <<srcCheckouts, property_map, checkins, ci_i, printed, resolved,
                   out_checkins, fetched_today, checkout_props, out_checkouts,
                   out_pending>>
    /\ UNCHANGED <<pageVars, statusVars, yesterdayVars>>

\* One iteration of `for prop_id, prop_info in property_map.items():` (lines 258-274)
CleaningStep ==
    /\ tpc = "cleaning_loop"
    /\ LET prop_id == property_map[cm_k].key
           prop_name == property_map[cm_k].val
       IN  \E ok \in BOOLEAN, results \in SeqsUpTo(TodayTaskRecs, MaxTTasks) :
              LET tasks == FetchTasks(ok, results)
              IN  /\ fetched_today' = [fetched_today EXCEPT
                                          ![prop_id] = IF ok THEN results ELSE << >>]
                  /\ cleaning_map' = IF tasks # << >>
                                     THEN DictPut(cleaning_map, prop_name,
                                                  TodayLines(prop_name, tasks))
                                     ELSE cleaning_map
    /\ cm_k' = cm_k + 1
    /\ tpc' = IF cm_k = Len(property_map) THEN "checkout_section" ELSE "cleaning_loop"
    /\ UNCHANGED <<srcCheckouts, property_map, checkins, ci_i, printed, resolved,
                   out_checkins, checkouts, checkout_props, out_checkouts, out_pending>>
    /\ UNCHANGED <<pageVars, statusVars, yesterdayVars>>

\* The lines one check-out reservation appends (lines 279-289)
CheckoutLines(res) ==
    IF ~DictHas(property_map, res.property_id) THEN << >>
    ELSE LET prop_name == DictGet(property_map, res.property_id)
         IN  IF DictHas(cleaning_map, prop_name)
             THEN [k \in DOMAIN DictGet(cleaning_map, prop_name) |->
                     Line(TRUE, DictGet(cleaning_map, prop_name)[k].parts)]
             ELSE <<Line(TRUE, <<prop_name>>)>>

\* Lines 276-291
CheckoutSection ==
    /\ tpc = "checkout_section"
    /\ checkout_props' =
          {DictGet(property_map, checkouts[i].property_id) :
             i \in {j \in DOMAIN checkouts : DictHas(property_map, checkouts[j].property_id)}}
    /\ out_checkouts' =
          IF checkouts # << >>
          THEN Concat([i \in DOMAIN checkouts |-> CheckoutLines(checkouts[i])])
          ELSE <<Line(FALSE, <<"No check-outs today.">>)>>
    /\ tpc' = "pending_section"
    /\ UNCHANGED <<srcCheckouts, property_map, checkins, ci_i, printed, resolved,
                   out_checkins, checkouts, cm_k, fetched_today, cleaning_map,
                   out_pending>>
    /\ UNCHANGED <<pageVars, statusVars, yesterdayVars>>

\* `if prop_name not in checkout_props:`, left out
IsPendingAlways(prop_name) == TRUE

\* `if prop_name not in checkout_props:`
IsPending(prop_name) == prop_name \notin checkout_props

\* Lines 293-302
PendingSection ==
    /\ tpc = "pending_section"
    /\ LET lines == Concat([i \in DOMAIN cleaning_map |->
                              IF IsPending(cleaning_map[i].key) THEN cleaning_map[i].val
                              ELSE << >>])
           has_pending == lines # << >>
       IN  out_pending' = IF has_pending THEN lines
                          ELSE <<Line(FALSE, <<"No pending cleanings today.">>)>>
    /\ tpc' = "done"
    /\ UNCHANGED <<srcCheckouts, property_map, checkins, ci_i, printed, resolved,
                   out_checkins, checkouts, cm_k, fetched_today, cleaning_map,
                   checkout_props, out_checkouts>>
    /\ UNCHANGED <<pageVars, statusVars, yesterdayVars>>

InitToday ==
    /\ srcCheckouts \in SeqsUpTo([property_id : PropIds, checkout_date : {Today}],
                                 MaxCheckouts)
    /\ property_map = << >>
    /\ checkins = << >>
    /\ ci_i = 1
    /\ printed = {}
    /\ resolved = << >>
    /\ out_checkins = << >>
    /\ checkouts = << >>
    /\ cm_k = 1
    /\ fetched_today = [p \in PropIds |-> << >>]
    /\ cleaning_map = << >>
    /\ checkout_props = {}
    /\ out_checkouts = << >>
    /\ out_pending = << >>
    /\ tpc = "start"
    /\ PagesIdle /\ StatusIdle /\ YesterdayIdle

NextToday ==
    \/ StartToday
    \/ FetchCheckins
    \/ CheckinStep
    \/ FetchCheckouts
    \/ CleaningStep
    \/ CheckoutSection
    \/ PendingSection

SpecToday == InitToday /\ [][NextToday]_vars

\* The names of the known properties that have a check-out reservation today
CheckoutSet ==
    {property_map[i].val :
       i \in {j \in DOMAIN property_map :
                \E c \in DOMAIN checkouts : checkouts[c].property_id = property_map[j].key}}

(***************************************************************************)
(* C3 (as stated): with an empty property catalog, whatever reservations   *)
(* and tasks the source returns, the check-ins, check-outs and pending     *)
(* sections each consist of their "no data" placeholder line.              *)
(***************************************************************************)
C3_EmptyCatalogAllPlaceholders ==
    (tpc = "done" /\ property_map = << >>) =>
       /\ out_checkins = <<Line(FALSE, <<"No check-ins today.">>)>>
       /\ out_checkouts = <<Line(FALSE, <<"No check-outs today.">>)>>
       /\ out_pending = <<Line(FALSE, <<"No pending cleanings today.">>)>>

(***************************************************************************)
(* C6 (as stated): an active property with two or more check-in            *)
(* reservations today has exactly one line in the check-ins section, and   *)
(* its cleaning status is resolved exactly once, on the first of its       *)
(* reservations.                                                           *)
(***************************************************************************)
C6_OneLineAndOneResolutionPerProperty ==
    tpc \in {"checkouts", "cleaning_loop", "checkout_section", "pending_section", "done"} =>
       \A i \in DOMAIN property_map :
          LET prop_id == property_map[i].key
              prop_name == property_map[i].val
              mine == {k \in DOMAIN checkins : checkins[k].property_id = prop_id}
          IN  Cardinality(mine) >= 2 =>
                 /\ Cardinality({k \in DOMAIN out_checkins :
                        out_checkins[k].dash /\ out_checkins[k].parts[1] = prop_name}) = 1
                 /\ Cardinality({k \in DOMAIN resolved : resolved[k].prop_id = prop_id}) = 1
                 /\ \A k \in DOMAIN resolved :
                       resolved[k].prop_id = prop_id =>
                          /\ resolved[k].at \in mine
                          /\ \A m \in mine : resolved[k].at <= m

(***************************************************************************)
(* C7: no line under "Pending cleanings:" belongs to a property name that  *)
(* is in the check-out set of the run.                                     *)
(***************************************************************************)
C7_PendingExcludesCheckoutSet ==
    tpc = "done" =>
       \A k \in DOMAIN out_pending : out_pending[k].parts[1] \notin CheckoutSet

\* A property with a check-out has cleanings, and another property's are pending
C7_Witness ==
    /\ tpc = "done"
    /\ \E i \in DOMAIN cleaning_map : cleaning_map[i].key \in CheckoutSet
    /\ \E k \in DOMAIN out_pending : Len(out_pending[k].parts) >= 3

(***************************************************************************)
(* C10 (as stated): for every active property with a housekeeping task     *)
(* today, the status lines of all its tasks are in the report, under       *)
(* "Check-outs today:" if the property has a check-out reservation today   *)
(* and under "Pending cleanings:" otherwise, never under both, also when   *)
(* property ids share a display name.                                      *)
(***************************************************************************)
C10_EveryTaskLineReported ==
    tpc = "done" =>
       \A i \in DOMAIN property_map :
          LET prop_id == property_map[i].key
              expected == TodayLines(property_map[i].val,
                             SelectSeq(fetched_today[prop_id],
                                LAMBDA t : t.type_department = "housekeeping"))
              leaving == \E c \in DOMAIN checkouts : checkouts[c].property_id = prop_id
          IN  \A k \in DOMAIN expected :
                 LET under_checkouts == Line(TRUE, expected[k].parts) \in Range(out_checkouts)
                     under_pending == expected[k] \in Range(out_pending)
                 IN  IF leaving THEN under_checkouts /\ ~under_pending
                     ELSE under_pending /\ ~under_checkouts

\* fetch_tasks keeps no task of another department: none reaches cleaning_map
FetchTasksDropsOtherDepartments ==
    \A i \in DOMAIN cleaning_map :
       \A k \in DOMAIN cleaning_map[i].val : cleaning_map[i].val[k].parts[2] # "Fix"

(***************************************************************************)
(* SpecYesterday: fetch_yesterday_cleanings(headers).                      *)
(***************************************************************************)
\* The task records the source may hold for yesterday
YesterdayTaskRecs ==
    { [type_department |-> "housekeeping", type |-> "Clean", name |-> "",
       finished_at |-> << >>,
       assignments |-> <<[name |-> "Ann", type_task_user_status |-> "completed"]>>],
      [type_department |-> "housekeeping", type |-> "", name |-> "",
       finished_at |-> StampOf(1, 1),
       assignments |-> <<[name |-> "", type_task_user_status |-> ""],
                         [name |-> "Bob", type_task_user_status |-> "in_progress"]>>],
      [type_department |-> "housekeeping", type |-> "", name |-> "Turnover",
       finished_at |-> << >>,
       assignments |-> <<[name |-> "Bob", type_task_user_status |-> "in_progress"]>>],
      [type_department |-> "housekeeping", type |-> "Deep", name |-> "",
       finished_at |-> StampOf(1, 2), assignments |-> << >>],
      [type_department |-> "maintenance", type |-> "Fix", name |-> "",
       finished_at |-> StampOf(1, 1),
       assignments |-> <<[name |-> "Ann", type_task_user_status |-> "completed"]>>] }

\* The status of line 207, with `and` for `or`
AssignmentStatusBoth(task, assignment) ==
    IF assignment.type_task_user_status = "completed" /\ task.finished_at # << >>
    THEN "Completed" ELSE "Not completed"

\* "Completed" if assignment.get("type_task_user_status") == "completed"
\*     or task.get("finished_at") else "Not completed"
AssignmentStatus(task, assignment) ==
    IF assignment.type_task_user_status = "completed" \/ task.finished_at # << >>
    THEN "Completed" ELSE "Not completed"

\* The lines one task appends (lines 199-208)
YesterdayTaskLines(prop_name, task) ==
    IF task.type_department # "housekeeping" THEN << >>
    ELSE IF task.assignments = << >> THEN << >>
    ELSE [a \in DOMAIN task.assignments |->
            Line(TRUE, <<prop_name, TaskName(task),
                         OrElse(task.assignments[a].name, "Unknown"),
                         AssignmentStatus(task, task.assignments[a])>>)]

\* Lines 189-191
YStart ==
    /\ ypc = "start"
    /\ \E ok \in BOOLEAN, cat \in Catalogs :
          /\ y_property_map' = FetchPropertyMap(ok, cat)
          /\ ypc' = IF FetchPropertyMap(ok, cat) = << >> THEN "returned" ELSE "loop"
    /\ y_output' = << >>
    /\ y_k' = 1
    /\ UNCHANGED y_fetched
    /\ UNCHANGED <<pageVars, statusVars, todayVars>>

\* One iteration of `for prop_id, prop_info in property_map.items():` (lines 193-208)
YPropertyStep ==
    /\ ypc = "loop"
    /\ LET prop_id == y_property_map[y_k].key
           prop_name == y_property_map[y_k].val
       IN  \E ok \in BOOLEAN, results \in SeqsUpTo(YesterdayTaskRecs, MaxYTasks) :
              LET tasks == FetchTasks(ok, results)
              IN  /\ y_fetched' = [y_fetched EXCEPT
                                     ![prop_id] = IF ok THEN results ELSE << >>]
                  /\ y_output' = y_output \o
                        Concat([k \in DOMAIN tasks |-> YesterdayTaskLines(prop_name, tasks[k])])
    /\ y_k' = y_k + 1
    /\ ypc' = IF y_k = Len(y_property_map) THEN "returned" ELSE "loop"
    /\ UNCHANGED y_property_map
    /\ UNCHANGED <<pageVars, statusVars, todayVars>>

InitYesterday ==
    /\ y_property_map = << >>
    /\ y_k = 1
    /\ y_fetched = [p \in PropIds |-> << >>]
    /\ y_output = << >>
    /\ ypc = "start"
    /\ PagesIdle /\ StatusIdle /\ TodayIdle

NextYesterday == YStart \/ YPropertyStep

SpecYesterday == InitYesterday /\ [][NextYesterday]_vars

(***************************************************************************)
(* C9: yesterday's summary has, for every active property and every        *)
(* housekeeping task of yesterday, exactly one line per assignment, whose  *)
(* status is "Completed" if and only if the assignment's status is         *)
(* completed or the task has a non-empty finished_at, and "Not completed"  *)
(* otherwise; a task without assignments has no line.                      *)
(***************************************************************************)
C9_OneLinePerAssignment ==
    ypc = "returned" =>
       LET done(t, a) == a.type_task_user_status = "completed" \/ t.finished_at # << >>
           of_task(n, t) ==
              [a \in DOMAIN t.assignments |->
                 Line(TRUE, <<n, OrElse(t.type, OrElse(t.name, "Unnamed Task")),
                              OrElse(t.assignments[a].name, "Unknown"),
                              IF done(t, t.assignments[a]) THEN "Completed"
                              ELSE "Not completed">>)]
           of_property(p) ==
              LET ts == SelectSeq(y_fetched[p.key],
                                  LAMBDA t : t.type_department = "housekeeping")
              IN  Concat([k \in DOMAIN ts |-> of_task(p.val, ts[k])])
       IN  y_output = Concat([i \in DOMAIN y_property_map |-> of_property(y_property_map[i])])

\* Lines of both statuses, a finished task without assignments, and a task of
\* another department
C9_Witness ==
    /\ ypc = "returned"
    /\ \E k \in DOMAIN y_output : y_output[k].parts[4] = "Completed"
    /\ \E k \in DOMAIN y_output : y_output[k].parts[4] = "Not completed"
    /\ \E p \in PropIds : \E k \in DOMAIN y_fetched[p] :
          y_fetched[p][k].assignments = << >>
    /\ \E p \in PropIds : \E k \in DOMAIN y_fetched[p] :
          y_fetched[p][k].type_department = "maintenance"

====
